---- MODULE Spec2Model ----
(***************************************************************************)
(* Verso reminders: the natural-language reminder parser (services/nlp).   *)
(* Text is a string, read character by character; the regular expressions *)
(* of the source are kept as syntax trees and run by a backtracking        *)
(* matcher with the semantics of the JavaScript engine (leftmost match,    *)
(* ordered alternation, greedy quantifiers).  Instants are minutes on a    *)
(* time line.                                                              *)
(***************************************************************************)
EXTENDS Integers, Sequences, FiniteSets, TLC

VARIABLES
  input,    \* the text handed to the parser
  ref,      \* the reference instant handed to the parser
  forward,  \* whether the date/time library forwards past clock times itself
  pc,       \* "input" before the call, "parsed" after it, "summarised" at the end
  result,   \* what parseNaturalLanguage returned
  now,      \* the clock when the summary is made
  locale,   \* the locale of the runtime
  summary,  \* what formatParsedSummary returned
  lastIndex, \* the lastIndex of the three module-level regular expressions
  history,  \* the calls of a session, in order: text, reference and result
  reminders, \* the reminder list of the provider
  cloud,    \* the user's rows of the cloud table, as fetchRemindersFromCloud returns them
  syncPc,   \* where initializeCloudSync stands: "off", "start", "merged", "subscribed"
  merge,    \* the last merge of fetched rows into the list: what went in and what came out
  remote,   \* the last remote update event handled: its record, the list before and after
  response, \* the response to a notification; userText is what the user typed, if anything
  handler,  \* the notification service that receives the response
  snoozeMinutes, \* the minutes the service derived from it
  draftText, \* the text in the input of the rapid-reminder screen
  draftParsed, \* the preview: the last parse the screen stored, or null
  timeout,  \* the pending debounce timer and the text its callback closes over
  saved,    \* what handleSave handed to addReminder, and the text at that moment
  isProUser, \* the pro status the capability map is made from
  storage,  \* the reminder list persisted in AsyncStorage
  ops,      \* the calls of the provider's handlers in flight, each with its position
  scheduled, \* the trigger notifications the system holds
  displayed, \* the notifications that were delivered and are on screen
  lastOp    \* the last operation on a reminder and the reminder it was for

syncVars == <<reminders, cloud, syncPc, merge, remote>>

snoozeVars == <<response, handler, snoozeMinutes>>

\* the state outside the parser and the cloud sync
draftVars == <<draftText, draftParsed, timeout, saved>>

storeVars == <<isProUser, storage, ops>>

notifyVars == <<scheduled, displayed, lastOp>>

appVars == <<snoozeVars, draftVars, storeVars, notifyVars>>

vars ==
  <<input, ref, forward, pc, result, now, locale, summary, lastIndex, history, syncVars,
    appVars>>

(***************************************************************************)
(* Characters                                                              *)
(***************************************************************************)
LowerSeq ==
  <<"a","b","c","d","e","f","g","h","i","j","k","l","m",
    "n","o","p","q","r","s","t","u","v","w","x","y","z">>

UpperSeq ==
  <<"A","B","C","D","E","F","G","H","I","J","K","L","M",
    "N","O","P","Q","R","S","T","U","V","W","X","Y","Z">>

Range(f) == {f[x] : x \in DOMAIN f}

LowerSet == Range(LowerSeq)

UpperSet == Range(UpperSeq)

DigitSet == {"0","1","2","3","4","5","6","7","8","9"}

\* \s of the regular expressions, and what String.prototype.trim removes
SpaceSet == {" "}

\* \w of the regular expressions
WordSet == LowerSet \cup UpperSet \cup DigitSet \cup {"_"}

\* the class [\s,\-–—] of the title clean-up
TrimSet == SpaceSet \cup {",", "-"}

LowerOf == [ch \in UpperSet |-> LowerSeq[CHOOSE i \in 1..26 : UpperSeq[i] = ch]]

UpperOf == [ch \in LowerSet |-> UpperSeq[CHOOSE i \in 1..26 : LowerSeq[i] = ch]]

\* String.prototype.toLowerCase, one character
toLowerChar(ch) == IF ch \in UpperSet THEN LowerOf[ch] ELSE ch

\* String.prototype.toUpperCase, one character
toUpperChar(ch) == IF ch \in LowerSet THEN UpperOf[ch] ELSE ch

\* the character of s at position i
At(s, i) == SubSeq(s, i, i)

Min(a, b) == IF a < b THEN a ELSE b

\* String.prototype.toLowerCase, by halves
RECURSIVE toLowerCase(_)
toLowerCase(s) ==
  IF Len(s) = 0 THEN ""
  ELSE IF Len(s) = 1 THEN toLowerChar(s)
  ELSE LET h == Len(s) \div 2
       IN  toLowerCase(SubSeq(s, 1, h)) \o toLowerCase(SubSeq(s, h + 1, Len(s)))

(***************************************************************************)
(* Regular expressions: syntax                                             *)
(***************************************************************************)
Lit(w) == [t |-> "lit", w |-> w]

\* lo..hi characters of the class S, greedy
Cls(S, lo, hi) == [t |-> "cls", S |-> S, lo |-> lo, hi |-> hi]

Cat(rs) == [t |-> "cat", rs |-> rs]

Alt(rs) == [t |-> "alt", rs |-> rs]

Opt(r) == [t |-> "opt", r |-> r]

\* capturing group number k
Grp(k, r) == [t |-> "grp", k |-> k, r |-> r]

\* \b
WB == [t |-> "wb"]

\* $
EOS == [t |-> "eos"]

\* ^
BOS == [t |-> "bos"]

\* an upper limit standing for the unbounded quantifiers + and *
Unbounded == 64

Sp1 == Cls(SpaceSet, 1, Unbounded)

Sp0 == Cls(SpaceSet, 0, Unbounded)

Words(ws) == Alt([k \in 1..Len(ws) |-> Lit(ws[k])])

(***************************************************************************)
(* Regular expressions: matching                                           *)
(***************************************************************************)
NGroups == 4

NoCaps == [k \in 1..NGroups |-> <<0, 0>>]

IsWordAt(s, i) == i >= 1 /\ i <= Len(s) /\ At(s, i) \in WordSet

\* the number of characters of S from position i on, at most hi
RunLen(S, s, i, hi) ==
  CHOOSE n \in 0..Min(hi, Len(s) - i + 1) :
    /\ \A j \in i..(i + n - 1) : At(s, j) \in S
    /\ n = Min(hi, Len(s) - i + 1) \/ At(s, i + n) \notin S

\* the matches of a class that found n characters from position i: the
\* longest first
ClsMatches(n, lo, i, c) ==
  IF n < lo THEN <<>>
  ELSE [k \in 1..(n - lo + 1) |-> [e |-> i + n - k + 1, c |-> c]]

\* the matches ms of a capturing group k that started at position i
Capture(ms, k, i) ==
  [j \in 1..Len(ms) |-> [e |-> ms[j].e, c |-> [ms[j].c EXCEPT ![k] = <<i, ms[j].e>>]]]

\* every way the expression r matches s from position i, in the order the
\* backtracking engine tries them: the first is the engine's match.  The
\* expressions of the source all carry the flag i: their literals are written
\* in lower case and s is the lower-cased text.
RECURSIVE Run(_, _, _, _), RunCat(_, _, _, _, _), RunAlt(_, _, _, _, _, _),
          RunEach(_, _, _, _, _)
Run(r, s, i, c) ==
  CASE r.t = "lit" ->
         IF i + Len(r.w) - 1 <= Len(s) /\ SubSeq(s, i, i + Len(r.w) - 1) = r.w
         THEN <<[e |-> i + Len(r.w), c |-> c]>>
         ELSE <<>>
    [] r.t = "cls" -> ClsMatches(RunLen(r.S, s, i, r.hi), r.lo, i, c)
    [] r.t = "wb" ->
         IF IsWordAt(s, i - 1) # IsWordAt(s, i) THEN <<[e |-> i, c |-> c]>> ELSE <<>>
    [] r.t = "eos" ->
         IF i = Len(s) + 1 THEN <<[e |-> i, c |-> c]>> ELSE <<>>
    [] r.t = "bos" ->
         IF i = 1 THEN <<[e |-> i, c |-> c]>> ELSE <<>>
    [] r.t = "opt" -> Run(r.r, s, i, c) \o <<[e |-> i, c |-> c]>>
    [] r.t = "alt" -> RunAlt(r.rs, 1, Len(r.rs), s, i, c)
    [] r.t = "cat" -> RunCat(r.rs, 1, Len(r.rs), s, <<[e |-> i, c |-> c]>>)
    [] r.t = "grp" -> Capture(Run(r.r, s, i, c), r.k, i)

\* the alternatives lo..hi of rs, in their order (by halves)
RunAlt(rs, lo, hi, s, i, c) ==
  IF lo = hi THEN Run(rs[lo], s, i, c)
  ELSE RunAlt(rs, lo, (lo + hi) \div 2, s, i, c)
         \o RunAlt(rs, (lo + hi) \div 2 + 1, hi, s, i, c)

\* the elements lo..hi of the sequence rs after the matches ms of the
\* elements before them (by halves): the engine tries the ways of an element
\* in their order for each way of the elements before it, in their order
RunCat(rs, lo, hi, s, ms) ==
  IF Len(ms) = 0 THEN <<>>
  ELSE IF lo = hi THEN RunEach(rs[lo], s, ms, 1, Len(ms))
  ELSE RunCat(rs, (lo + hi) \div 2 + 1, hi, s, RunCat(rs, lo, (lo + hi) \div 2, s, ms))

\* the element r after each of the matches lo..hi of ms, in their order (by
\* halves)
RunEach(r, s, ms, lo, hi) ==
  IF lo = hi THEN Run(r, s, ms[lo].e, ms[lo].c)
  ELSE RunEach(r, s, ms, lo, (lo + hi) \div 2)
         \o RunEach(r, s, ms, (lo + hi) \div 2 + 1, hi)

NoMatch == [found |-> FALSE, b |-> 0, e |-> 0, c |-> NoCaps]

\* the least element of a set of positions, 0 for the empty set
Least(P) == IF P = {} THEN 0 ELSE CHOOSE p \in P : \A q \in P : p <= q

\* the first position from from on from which r matches s, 0 for none
FirstStart(r, s, from) ==
  Least({p \in from..(Len(s) + 1) : Len(Run(r, s, p, NoCaps)) > 0})

\* the match the engine finds from position b
MatchOf(b, ms) == [found |-> TRUE, b |-> b, e |-> ms[1].e, c |-> ms[1].c]

\* the match at the position b, 0 standing for no position
MatchAt(r, s, b) == IF b = 0 THEN NoMatch ELSE MatchOf(b, Run(r, s, b, NoCaps))

\* RegExp.prototype.exec on the lower-cased text from position from: the
\* leftmost match
ExecFrom(r, s, from) == MatchAt(r, s, FirstStart(r, s, from))

\* the search in the lower-cased text ls (the test of the length has the
\* text read before the search starts)
ExecLower(r, ls) == IF Len(ls) = 0 THEN ExecFrom(r, "", 1) ELSE ExecFrom(r, ls, 1)

\* String.prototype.match of an expression without the flag g
Exec(r, s) == ExecLower(r, toLowerCase(s))

\* RegExp.prototype.test of an expression without the flag g
Test(r, s) == Exec(r, s).found

\* the text of capturing group k of a match
Group(s, m, k) == SubSeq(s, m.c[k][1], m.c[k][2] - 1)

\* String.prototype.replace(r, rep) of an expression with the flag g; ls is
\* the lower-cased s and the search starts at position from (lastIndex)
RECURSIVE ReplaceAllFrom(_, _, _, _, _), ReplaceMatch(_, _, _, _, _, _)
ReplaceAllFrom(r, rep, s, ls, from) ==
  ReplaceMatch(ExecFrom(r, ls, from), r, rep, s, ls, from)

\* m is the next match: it is replaced and the search goes on from its end,
\* or one character further when the match is empty
ReplaceMatch(m, r, rep, s, ls, from) ==
  IF ~m.found THEN SubSeq(s, from, Len(s))
  ELSE IF m.e = m.b
       THEN IF m.b > Len(s) THEN SubSeq(s, from, Len(s)) \o rep
            ELSE SubSeq(s, from, m.b - 1) \o rep \o At(s, m.b)
                   \o ReplaceAllFrom(r, rep, s, ls, m.b + 1)
       ELSE SubSeq(s, from, m.b - 1) \o rep \o ReplaceAllFrom(r, rep, s, ls, m.e)

\* the replacement in the text s, ls its lower case
ReplaceLower(r, rep, s, ls) ==
  IF Len(ls) = 0 THEN ReplaceAllFrom(r, rep, "", "", 1)
  ELSE ReplaceAllFrom(r, rep, s, ls, 1)

ReplaceAll(r, rep, s) == ReplaceLower(r, rep, s, toLowerCase(s))

\* the text from the first to the last of the positions P
Between(s, P) ==
  IF P = {} THEN ""
  ELSE SubSeq(s, CHOOSE p \in P : \A q \in P : p <= q,
                 CHOOSE p \in P : \A q \in P : p >= q)

\* String.prototype.trim
trim(s) == Between(s, {i \in 1..Len(s) : At(s, i) \notin SpaceSet})

\* parseInt(s, 10) of a run of digits
RECURSIVE parseInt(_)
parseInt(s) ==
  IF Len(s) = 0 THEN 0
  ELSE 10 * parseInt(SubSeq(s, 1, Len(s) - 1))
         + (CHOOSE d \in 0..9 : ToString(d) = At(s, Len(s)))

(***************************************************************************)
(* The patterns of the parser                                              *)
(***************************************************************************)
Digits1 == Cls(DigitSet, 1, Unbounded)

\* \d{1,2}(:\d{2})?
ClockDigits == Cat(<<Cls(DigitSet, 1, 2), Opt(Cat(<<Lit(":"), Cls(DigitSet, 2, 2)>>))>>)

WeekdayNames ==
  <<"sunday", "monday", "tuesday", "wednesday", "thursday", "friday", "saturday">>

\* days?|weeks?|months?|years?|hours?
UnitsPlural ==
  Alt(<<Cat(<<Lit("day"), Opt(Lit("s"))>>), Cat(<<Lit("week"), Opt(Lit("s"))>>),
        Cat(<<Lit("month"), Opt(Lit("s"))>>), Cat(<<Lit("year"), Opt(Lit("s"))>>),
        Cat(<<Lit("hour"), Opt(Lit("s"))>>)>>)

TIME_PHRASES ==
  Cat(<<WB,
        Alt(<<Cat(<<Lit("at"), Sp1, ClockDigits, Sp0, Opt(Words(<<"am", "pm">>))>>),
              Cat(<<Lit("starting"), Sp1,
                    Alt(<<Lit("today"), Lit("tomorrow"),
                          Cat(<<Lit("next"), Sp1, Cls(WordSet, 1, Unbounded)>>),
                          Cat(<<Lit("on"), Sp1, Cls(WordSet, 1, Unbounded)>>)>>)>>),
              Cat(<<Lit("from"), Sp1,
                    Alt(<<Lit("today"), Lit("tomorrow"),
                          Cat(<<Lit("next"), Sp1, Cls(WordSet, 1, Unbounded)>>)>>)>>)>>),
        WB>>)

RECURRENCE_PHRASES ==
  Cat(<<WB,
        Alt(<<Cat(<<Lit("every"), Sp1,
                    Opt(Cat(<<Lit("single"), Sp1>>)),
                    Opt(Cat(<<Lit("other"), Sp1>>)),
                    Alt(<<Lit("day"), Lit("daily"), Lit("week"), Lit("weekly"),
                          Lit("month"), Lit("monthly"), Lit("year"), Lit("yearly"),
                          Lit("weekday"), Lit("morning"), Lit("evening"), Lit("night"),
                          Lit("hour"), Lit("hourly"),
                          Cat(<<Digits1, Sp0, UnitsPlural>>)>>)>>),
              Lit("daily"), Lit("weekly"), Lit("monthly"), Lit("yearly"),
              Lit("hourly")>>),
        WB>>)

PRIORITY_PHRASES ==
  Cat(<<WB,
        Alt(<<Cat(<<Lit("high"), Sp1, Lit("priority")>>), Lit("urgent"),
              Lit("important"), Cat(<<Lit("low"), Sp1, Lit("priority")>>),
              Cat(<<Lit("not"), Sp1, Lit("urgent")>>)>>),
        WB>>)

\* /every\s+other\s+(day|week|month|year|hour)/i
EveryOtherRe ==
  Cat(<<Lit("every"), Sp1, Lit("other"), Sp1,
        Grp(1, Words(<<"day", "week", "month", "year", "hour">>))>>)

\* /every\s+(\d+)\s*(days?|weeks?|months?|years?|hours?)/i
EveryNRe == Cat(<<Lit("every"), Sp1, Grp(1, Digits1), Sp0, Grp(2, UnitsPlural)>>)

\* /every\s+(?:single\s+)?(day|week|month|year|hour|morning|evening|night|weekday)/i
EveryUnitRe ==
  Cat(<<Lit("every"), Sp1, Opt(Cat(<<Lit("single"), Sp1>>)),
        Grp(1, Words(<<"day", "week", "month", "year", "hour", "morning", "evening",
                       "night", "weekday">>))>>)

\* /\b<keyword>\b/i
KeywordRe(w) == Cat(<<WB, Lit(w), WB>>)

\* /every\s+(sunday|monday|tuesday|wednesday|thursday|friday|saturday)/i
EveryWeekdayRe == Cat(<<Lit("every"), Sp1, Words(WeekdayNames)>>)

\* /\b(urgent|high\s*priority|important|asap|critical)\b/i
HighPriorityRe ==
  Cat(<<WB,
        Alt(<<Lit("urgent"), Cat(<<Lit("high"), Sp0, Lit("priority")>>),
              Lit("important"), Lit("asap"), Lit("critical")>>),
        WB>>)

\* /\b(low\s*priority|not\s*urgent|whenever|no\s*rush)\b/i
LowPriorityRe ==
  Cat(<<WB,
        Alt(<<Cat(<<Lit("low"), Sp0, Lit("priority")>>),
              Cat(<<Lit("not"), Sp0, Lit("urgent")>>), Lit("whenever"),
              Cat(<<Lit("no"), Sp0, Lit("rush")>>)>>),
        WB>>)

\* the date phrases removed from the title
DatePhrasesRe ==
  Cat(<<WB,
        Alt(<<Lit("tomorrow"), Lit("today"), Lit("tonight"),
              Cat(<<Lit("next"), Sp1,
                    Alt(<<Lit("week"), Lit("month"), Lit("monday"), Lit("tuesday"),
                          Lit("wednesday"), Lit("thursday"), Lit("friday"),
                          Lit("saturday"), Lit("sunday")>>)>>),
              Cat(<<Lit("on"), Sp1,
                    Words(<<"monday", "tuesday", "wednesday", "thursday", "friday",
                            "saturday", "sunday">>)>>),
              Cat(<<Lit("this"), Sp1,
                    Words(<<"morning", "afternoon", "evening", "weekend">>)>>)>>),
        WB>>)

\* /\b\d{1,2}(:\d{2})?\s*(am|pm)\b/gi
StandaloneTimeRe == Cat(<<WB, ClockDigits, Sp0, Words(<<"am", "pm">>), WB>>)

\* /\b(at|by|before|after|around|from)\s*$/gi
TrailingPrepositionRe ==
  Cat(<<WB, Words(<<"at", "by", "before", "after", "around", "from">>), Sp0, EOS>>)

\* /\b(starting|from|beginning)\s*$/gi
TrailingStartingRe ==
  Cat(<<WB, Words(<<"starting", "from", "beginning">>), Sp0, EOS>>)

\* /^[\s,\-–—]+|[\s,\-–—]+$/g
EdgePunctuationRe ==
  Alt(<<Cat(<<BOS, Cls(TrimSet, 1, Unbounded)>>), Cat(<<Cls(TrimSet, 1, Unbounded), EOS>>)>>)

(***************************************************************************)
(* Instants: minutes since 2024-01-01T00:00, a Monday                      *)
(***************************************************************************)
MinutesPerHour == 60

MinutesPerDay == 1440

DaysPerWeek == 7

\* date-fns addDays, addHours and isBefore
addDays(d, n) == d + n * MinutesPerDay

addHours(d, n) == d + n * MinutesPerHour

isBefore(a, b) == a < b

\* Date.prototype.getHours() * 60 + getMinutes()
TimeOfDay(d) == d % MinutesPerDay

\* the day of the week, Monday = 1 .. Sunday = 7
WeekdayOf(d) == ((d \div MinutesPerDay) % DaysPerWeek) + 1

(***************************************************************************)
(* parseRecurrence                                                         *)
(***************************************************************************)
Undefined == [undefined |-> TRUE]

Recurrence(type, interval) == [type |-> type, interval |-> interval]

\* typeMap[unit] || "daily" of the first two rules
typeMap(unit) ==
  CASE unit = "day" -> "daily"
    [] unit = "week" -> "weekly"
    [] unit = "month" -> "monthly"
    [] unit = "year" -> "yearly"
    [] unit = "hour" -> "hourly"
    [] OTHER -> "daily"

\* typeMap[unit] || "daily" of the rule every [single] <unit>
typeMapUnit(unit) ==
  CASE unit = "day" -> "daily"
    [] unit = "week" -> "weekly"
    [] unit = "month" -> "monthly"
    [] unit = "year" -> "yearly"
    [] unit = "hour" -> "hourly"
    [] unit = "morning" -> "daily"
    [] unit = "evening" -> "daily"
    [] unit = "night" -> "daily"
    [] unit = "weekday" -> "daily"
    [] OTHER -> "daily"

\* a unit that keeps its plural s
StripPluralS_Kept(u) == u

\* everyN[2].replace(/s$/, "")
StripPluralS(u) ==
  IF Len(u) > 0 /\ At(u, Len(u)) = "s" THEN SubSeq(u, 1, Len(u) - 1) ELSE u

\* the standalone keywords tried before the multi-word rules
parseRecurrence_KeywordsFirst(text) ==
  LET lower == toLowerCase(text)
      everyOther == Exec(EveryOtherRe, lower)
      everyN == Exec(EveryNRe, lower)
      everyUnit == Exec(EveryUnitRe, lower)
  IN  IF Test(KeywordRe("daily"), lower) THEN Recurrence("daily", 1)
      ELSE IF Test(KeywordRe("weekly"), lower) THEN Recurrence("weekly", 1)
      ELSE IF Test(KeywordRe("monthly"), lower) THEN Recurrence("monthly", 1)
      ELSE IF Test(KeywordRe("yearly"), lower) THEN Recurrence("yearly", 1)
      ELSE IF Test(KeywordRe("hourly"), lower) THEN Recurrence("hourly", 1)
      ELSE IF everyOther.found
      THEN Recurrence(typeMap(Group(lower, everyOther, 1)), 2)
      ELSE IF everyN.found
      THEN Recurrence(typeMap(StripPluralS(Group(lower, everyN, 2))),
                      parseInt(Group(lower, everyN, 1)))
      ELSE IF everyUnit.found
      THEN Recurrence(typeMapUnit(Group(lower, everyUnit, 1)), 1)
      ELSE IF Test(EveryWeekdayRe, lower) THEN Recurrence("weekly", 1)
      ELSE Undefined

parseRecurrence(text) ==
  LET lower == toLowerCase(text)
      everyOther == Exec(EveryOtherRe, lower)
      everyN == Exec(EveryNRe, lower)
      everyUnit == Exec(EveryUnitRe, lower)
  IN  IF everyOther.found
      THEN Recurrence(typeMap(Group(lower, everyOther, 1)), 2)
      ELSE IF everyN.found
      THEN Recurrence(typeMap(StripPluralS(Group(lower, everyN, 2))),
                      parseInt(Group(lower, everyN, 1)))
      ELSE IF everyUnit.found
      THEN Recurrence(typeMapUnit(Group(lower, everyUnit, 1)), 1)
      ELSE IF Test(KeywordRe("daily"), lower) THEN Recurrence("daily", 1)
      ELSE IF Test(KeywordRe("weekly"), lower) THEN Recurrence("weekly", 1)
      ELSE IF Test(KeywordRe("monthly"), lower) THEN Recurrence("monthly", 1)
      ELSE IF Test(KeywordRe("yearly"), lower) THEN Recurrence("yearly", 1)
      ELSE IF Test(KeywordRe("hourly"), lower) THEN Recurrence("hourly", 1)
      ELSE IF Test(EveryWeekdayRe, lower) THEN Recurrence("weekly", 1)
      ELSE Undefined

(***************************************************************************)
(* parsePriority                                                           *)
(***************************************************************************)
\* parsePriority with the two tests in the other order
parsePriority_LowFirst(text) ==
  LET lower == toLowerCase(text)
  IN  IF Test(LowPriorityRe, lower) THEN "low"
      ELSE IF Test(HighPriorityRe, lower) THEN "high"
      ELSE "medium"

parsePriority(text) ==
  LET lower == toLowerCase(text)
  IN  IF Test(HighPriorityRe, lower) THEN "high"
      ELSE IF Test(LowPriorityRe, lower) THEN "low"
      ELSE "medium"

(***************************************************************************)
(* extractTitle                                                            *)
(***************************************************************************)
\* title.charAt(0).toUpperCase() + title.slice(1)
Capitalize(title) ==
  IF Len(title) > 0 THEN toUpperChar(Head(title)) \o Tail(title) ELSE title

\* the replacements of extractTitle k.. of the list ps, each by the empty
\* text, in their order; nothing is left to remove from an empty title
RECURSIVE RemoveEach(_, _, _)
RemoveEach(ps, k, title) ==
  IF Len(title) = 0 \/ k > Len(ps) THEN title
  ELSE RemoveEach(ps, k + 1, ReplaceAll(ps[k], "", title))

\* .replace(/^[\s,\-]+|[\s,\-]+$/g, "").trim() and the capital first letter
TrimEdges(title) ==
  IF Len(title) = 0 THEN title
  ELSE Capitalize(trim(ReplaceAll(EdgePunctuationRe, "", title)))

\* .replace(/\s+/g, " ").trim() and the steps after it
CleanUp(title) ==
  IF Len(title) = 0 THEN title
  ELSE TrimEdges(trim(ReplaceAll(Sp1, " ", title)))

\* the list without the time phrases
TitlePatterns_TimeKept ==
  <<RECURRENCE_PHRASES, PRIORITY_PHRASES, DatePhrasesRe, StandaloneTimeRe,
    TrailingPrepositionRe, TrailingStartingRe>>

\* the patterns whose matches extractTitle removes, in the order of the source
TitlePatterns ==
  <<RECURRENCE_PHRASES, TIME_PHRASES, PRIORITY_PHRASES, DatePhrasesRe,
    StandaloneTimeRe, TrailingPrepositionRe, TrailingStartingRe>>

\* a title from which the time phrases are not removed
extractTitle_TimeKept(text) == CleanUp(RemoveEach(TitlePatterns_TimeKept, 1, text))

\* extractTitle with the date phrases left in the title
TitlePatterns_DateKept ==
  <<RECURRENCE_PHRASES, TIME_PHRASES, PRIORITY_PHRASES, StandaloneTimeRe,
    TrailingPrepositionRe, TrailingStartingRe>>

extractTitle_DateKept(text) == CleanUp(RemoveEach(TitlePatterns_DateKept, 1, text))

extractTitle(text) == CleanUp(RemoveEach(TitlePatterns, 1, text))

(***************************************************************************)
(* The anchor date/time extractor: chrono.parse(text, ref, {forwardDate:   *)
(* true}), the first result.  It recognizes clock times ("7am", "at 7",    *)
(* "2:30pm", "14:00"), the relative day words and the weekday names, and   *)
(* merges a day and a clock time that stand side by side.                  *)
(***************************************************************************)
\* (at\s+)?\d{1,2}(:\d{2})?\s*(am|pm) | at\s+\d{1,2}(:\d{2})? | \d{1,2}:\d{2}
ChronoTimeRe ==
  Alt(<<Cat(<<Opt(Cat(<<Lit("at"), Sp1>>)), Grp(1, Cls(DigitSet, 1, 2)),
              Opt(Cat(<<Lit(":"), Grp(2, Cls(DigitSet, 2, 2))>>)), Sp0,
              Grp(3, Words(<<"am", "pm">>)), WB>>),
        Cat(<<Lit("at"), Sp1, Grp(1, Cls(DigitSet, 1, 2)),
              Opt(Cat(<<Lit(":"), Grp(2, Cls(DigitSet, 2, 2))>>)), WB>>),
        Cat(<<Grp(1, Cls(DigitSet, 1, 2)), Lit(":"), Grp(2, Cls(DigitSet, 2, 2)), WB>>)>>)

ChronoDayRe ==
  Cat(<<Grp(4, Alt(<<Lit("today"), Lit("tomorrow"), Lit("tonight"), Lit("yesterday"),
                     Words(WeekdayNames)>>)),
        WB>>)

ChronoRe ==
  Cat(<<WB,
        Alt(<<Cat(<<ChronoDayRe, Sp1, ChronoTimeRe>>),
              Cat(<<ChronoTimeRe, Sp1, ChronoDayRe>>),
              ChronoDayRe,
              ChronoTimeRe>>)>>)

NoonMinutes == 720

TonightMinutes == 1320

\* the number of the weekday name w, Monday = 1 .. Sunday = 7
WeekdayNumber(w) ==
  CASE w = "monday" -> 1 [] w = "tuesday" -> 2 [] w = "wednesday" -> 3
    [] w = "thursday" -> 4 [] w = "friday" -> 5 [] w = "saturday" -> 6
    [] w = "sunday" -> 7

\* the days from the reference day to the day the word names
ChronoDayOffset(w, r) ==
  CASE w = "" -> 0
    [] w = "today" -> 0
    [] w = "tonight" -> 0
    [] w = "tomorrow" -> 1
    [] w = "yesterday" -> 0 - 1
    [] OTHER -> (WeekdayNumber(w) - WeekdayOf(r) + DaysPerWeek) % DaysPerWeek

\* the minute of the day a clock time names
ChronoClock(h, m, meridiem) ==
  LET hour == IF meridiem = "pm" /\ h < 12 THEN h + 12
              ELSE IF meridiem = "am" /\ h = 12 THEN 0
              ELSE h
  IN  hour * MinutesPerHour + m

\* what the first date/time expression of the text states: whether it has
\* a clock time, the day word it has ("" for none), and the minute of the day
ChronoComponents(text) ==
  LET lower == toLowerCase(text)
      m == Exec(ChronoRe, lower)
      hasTime == m.c[1] # <<0, 0>>
      day == IF m.c[4] # <<0, 0>> THEN Group(lower, m, 4) ELSE ""
      minute == IF m.c[2] # <<0, 0>> THEN parseInt(Group(lower, m, 2)) ELSE 0
      meridiem == IF m.c[3] # <<0, 0>> THEN Group(lower, m, 3) ELSE ""
  IN  [found |-> m.found,
       hasTime |-> hasTime,
       day |-> day,
       clock |-> IF hasTime
                 THEN ChronoClock(parseInt(Group(lower, m, 1)), minute, meridiem)
                 ELSE IF day = "tonight" THEN TonightMinutes
                 ELSE NoonMinutes]

\* the instant the components k state, read at the reference instant r
ChronoAt(k, r) == addDays(r - TimeOfDay(r), ChronoDayOffset(k.day, r)) + k.clock

\* a weekday name standing alone
ChronoWeekdayOnly(k) ==
  ~k.hasTime /\ k.day \notin {"", "today", "tomorrow", "tonight", "yesterday"}

\* forwardDate: a bare clock time that has passed moves to the next day, a
\* bare weekday that has passed to the next week
ChronoForward(k, at, r, fwd) ==
  IF fwd /\ k.day = "" /\ isBefore(at, r) THEN addDays(at, 1)
  ELSE IF fwd /\ ChronoWeekdayOnly(k) /\ isBefore(at, r) THEN addDays(at, DaysPerWeek)
  ELSE at

ChronoResults(k, r, fwd) ==
  IF ~k.found THEN <<>>
  ELSE <<[date |-> ChronoForward(k, ChronoAt(k, r), r, fwd),
          certainHour |-> k.hasTime, certainMinute |-> k.hasTime]>>

\* chrono.parse(text, ref, {forwardDate: true}): no result or one result.
\* fwd: whether the library itself moves a past clock time or weekday
\* forward, which depends on its version
chronoParse(text, r, fwd) == ChronoResults(ChronoComponents(text), r, fwd)

(***************************************************************************)
(* parseNaturalLanguage                                                    *)
(***************************************************************************)
null == [null |-> TRUE]

\* the confidence values, in tenths: 0.3, 0.8, 0.9, the step 0.1 and the cap 1
ConfidenceNone == 3

ConfidenceDate == 8

ConfidenceTime == 9

ConfidenceStep == 1

ConfidenceCap == 10

\* the default branch keeping the initial confidence 0.5
AnchorDatetime_InitialConfidence(chronoResults, referenceDate) ==
  IF Len(chronoResults) > 0
  THEN LET res == chronoResults[1]
       IN  [datetime |-> IF isBefore(res.date, referenceDate)
                         THEN addDays(res.date, 1) ELSE res.date,
            confidence |-> IF res.certainHour \/ res.certainMinute
                           THEN ConfidenceTime ELSE ConfidenceDate]
  ELSE [datetime |-> addHours(referenceDate, 1), confidence |-> 5]

\* the boost given whether or not a time was stated
AnchorDatetime_AlwaysBoosted(chronoResults, referenceDate) ==
  IF Len(chronoResults) > 0
  THEN LET res == chronoResults[1]
       IN  [datetime |-> IF isBefore(res.date, referenceDate)
                         THEN addDays(res.date, 1) ELSE res.date,
            confidence |-> ConfidenceTime]
  ELSE [datetime |-> addHours(referenceDate, 1), confidence |-> ConfidenceNone]

\* a past instant left where the library put it
AnchorDatetime_NoPush(chronoResults, referenceDate) ==
  IF Len(chronoResults) > 0
  THEN LET res == chronoResults[1]
       IN  [datetime |-> res.date,
            confidence |-> IF res.certainHour \/ res.certainMinute
                           THEN ConfidenceTime ELSE ConfidenceDate]
  ELSE [datetime |-> addHours(referenceDate, 1), confidence |-> ConfidenceNone]

\* a past instant pushed a second day when one day does not reach the reference
AnchorDatetime_PushTwice(chronoResults, referenceDate) ==
  IF Len(chronoResults) > 0
  THEN LET res == chronoResults[1]
       IN  [datetime |-> IF isBefore(addDays(res.date, 1), referenceDate)
                         THEN addDays(res.date, 2)
                         ELSE IF isBefore(res.date, referenceDate)
                         THEN addDays(res.date, 1) ELSE res.date,
            confidence |-> IF res.certainHour \/ res.certainMinute
                           THEN ConfidenceTime ELSE ConfidenceDate]
  ELSE [datetime |-> addHours(referenceDate, 1), confidence |-> ConfidenceNone]

\* step 1 of parseNaturalLanguage: the instant and the base confidence
AnchorDatetime(chronoResults, referenceDate) ==
  IF Len(chronoResults) > 0
  THEN LET res == chronoResults[1]
       IN  [datetime |-> IF isBefore(res.date, referenceDate)
                         THEN addDays(res.date, 1) ELSE res.date,
            confidence |-> IF res.certainHour \/ res.certainMinute
                           THEN ConfidenceTime ELSE ConfidenceDate]
  ELSE [datetime |-> addHours(referenceDate, 1), confidence |-> ConfidenceNone]

\* steps 2 and 5 to 7: the confidence with the bonus of a recurrence
Confidence(anchor, recurrence) ==
  IF recurrence # Undefined
  THEN Min(anchor.confidence + ConfidenceStep, ConfidenceCap)
  ELSE anchor.confidence

\* a reminder returned whatever its title
Reminder_NoTitleCheck(title, anchor, recurrence, priority) ==
  [title |-> title, datetime |-> anchor.datetime, recurrence |-> recurrence,
   priority |-> priority, confidence |-> Confidence(anchor, recurrence)]

\* steps 5 to 7: null for an empty title, else the reminder
Reminder(title, anchor, recurrence, priority) ==
  IF Len(title) = 0 THEN null
  ELSE [title |-> title, datetime |-> anchor.datetime, recurrence |-> recurrence,
        priority |-> priority, confidence |-> Confidence(anchor, recurrence)]

\* steps 1 to 7 on the trimmed text
ParseText(text, referenceDate, fwd) ==
  Reminder(extractTitle(text),
           AnchorDatetime(chronoParse(text, referenceDate, fwd), referenceDate),
           parseRecurrence(text), parsePriority(text))

parseNaturalLanguage(in, referenceDate, fwd) ==
  IF Len(in) = 0 \/ Len(trim(in)) = 0 THEN null
  ELSE ParseText(trim(in), referenceDate, fwd)

(***************************************************************************)
(* The inputs and the calls                                                *)
(***************************************************************************)
\* the most phrases joined into one input
MaxPhrases == 2

Phrases ==
  {"Call mum", "every other week", "every 3 days", "every 0 days",
   "daily", "every Sunday", "at 7am", "tomorrow", "urgent"}

\* the scenarios of the documentation, texts with blank ends, and one text
\* for every kind of phrase the patterns tell apart
Scenarios ==
  {"Take bins out every day at 7am starting tomorrow",
   "Call mum every Sunday at 3pm",
   "Water plants every 3 days at 8am",
   "Dentist tomorrow at 2:30pm urgent",
   "team standup every weekday at 9:15am",
   "pay rent monthly every other Year at 9am",
   "dentist appointment on friday at 2:30pm",
   "", " ", "   ", "  buy milk ", " every  day ", "every day at 7am",
   "buy milk", "Buy milk 14:00", "buy milk yesterday at 3am", "buy milk tonight",
   "Water plants every 0 days", "Water plants every 12 months", "feed cat every 1 day",
   "stretch every 2hours", "backup every single week", "journal every night",
   "review yearly", "call mum Weekly", "walk every other morning",
   "water plants not urgent", "buy milk whenever", "fix bug asap", "no rush tidy up",
   "pay rent low priority", "ship it high priority", "- buy milk, today -",
   "Call mum 3am", "Call mum every weekday", "3am",
   "fix bug whenever asap", "URGENT fix", "insurgent meeting", "this is Critical",
   "an important call no rush", "tidy up norush", "ship it highpriority",
   "stop by after 5pm", "pay rent monthly tomorrow urgent",
   "Call mum tomorrow!"}

RECURSIVE Join(_)
Join(ps) ==
  IF Len(ps) = 0 THEN ""
  ELSE IF Len(ps) = 1 THEN ps[1]
  ELSE ps[1] \o " " \o Join(Tail(ps))

Inputs ==
  Scenarios \cup {Join(ps) : ps \in UNION {[1..n -> Phrases] : n \in 1..MaxPhrases}}

\* Monday 2024-01-01 05:00 and 08:00, and Sunday 2024-01-07 23:30
Refs == {300, 480, 10050}

NotCalled == [notCalled |-> TRUE]

\* no summary has been asked for
NoSummary == now = 0 /\ summary = ""

\* the module has just been loaded: every lastIndex is 0 and no call was made
NoLastIndex == <<0, 0, 0>>

NoSession == lastIndex = NoLastIndex /\ history = <<>>

NoMerge == [none |-> TRUE]

\* the provider is not mounted
NoEvent == [none |-> TRUE]

NoSync ==
  reminders = <<>> /\ cloud = <<>> /\ syncPc = "off" /\ merge = NoMerge /\ remote = NoEvent

\* no notification response is being handled
NoSnooze == response = [none |-> TRUE] /\ handler = "none" /\ snoozeMinutes = 0

NoTimeout == [none |-> TRUE]

NoSave == [none |-> TRUE]

\* the rapid-reminder screen is not open
NoDraft == draftText = "" /\ draftParsed = null /\ timeout = NoTimeout /\ saved = NoSave

\* no handler of the provider is running
NoStore == isProUser = FALSE /\ storage = <<>> /\ ops = <<>>

\* no notification exists
NoNotify == scheduled = {} /\ displayed = {} /\ lastOp = [none |-> TRUE]

NoApp == NoSnooze /\ NoDraft /\ NoStore /\ NoNotify

Init ==
  /\ input \in Inputs
  /\ ref \in Refs
  /\ forward \in BOOLEAN
  /\ pc = "input"
  /\ result = NotCalled
  /\ locale = "en-US"
  /\ NoSummary
  /\ NoSession
  /\ NoSync
  /\ NoApp

\* const result = parseNaturalLanguage(text, ref)
Parse ==
  /\ pc = "input"
  /\ result' = parseNaturalLanguage(input, ref, forward)
  /\ pc' = "parsed"
  /\ UNCHANGED <<input, ref, forward, now, locale, summary, lastIndex, history, syncVars, appVars>>

Next == Parse

Spec == Init /\ [][Next]_vars

(***************************************************************************)
(* formatParsedSummary                                                     *)
(***************************************************************************)
\* a number below 100 in two digits
Pad2(n) == IF n < 10 THEN "0" \o ToString(n) ELSE ToString(n)

\* the calendar day of an instant, in days since 2024-01-01
DayOf(d) == d \div MinutesPerDay

\* a.toDateString() === b.toDateString()
SameDay(a, b) == DayOf(a) = DayOf(b)

Locales == {"en-US", "en-GB"}

\* toLocaleTimeString([], { hour: "numeric", minute: "2-digit" })
toLocaleTimeString(d, loc) ==
  LET h == TimeOfDay(d) \div MinutesPerHour
      m == TimeOfDay(d) % MinutesPerHour
  IN  IF loc = "en-US"
      THEN ToString(IF h % 12 = 0 THEN 12 ELSE h % 12) \o ":" \o Pad2(m)
             \o (IF h < 12 THEN " AM" ELSE " PM")
      ELSE Pad2(h) \o ":" \o Pad2(m)

WeekdayShort == <<"Mon", "Tue", "Wed", "Thu", "Fri", "Sat", "Sun">>

\* the months from December 2023 to December 2024, and the day each begins
\* on, counted from 2023-12-01
MonthShort ==
  <<"Dec", "Jan", "Feb", "Mar", "Apr", "May", "Jun", "Jul", "Aug", "Sep", "Oct",
    "Nov", "Dec">>

MonthStart == <<0, 31, 62, 91, 122, 152, 183, 213, 244, 275, 305, 336, 366, 397>>

\* the month of the calendar day, as an index of MonthShort
MonthOf(day) ==
  CHOOSE k \in 1..Len(MonthShort) :
    MonthStart[k] <= day + MonthStart[2] /\ day + MonthStart[2] < MonthStart[k + 1]

DayOfMonth(day) == day + MonthStart[2] - MonthStart[MonthOf(day)] + 1

\* toLocaleDateString([], { weekday: "short", month: "short", day: "numeric" })
toLocaleDateString(d, loc) ==
  IF loc = "en-US"
  THEN WeekdayShort[WeekdayOf(d)] \o ", " \o MonthShort[MonthOf(DayOf(d))] \o " "
         \o ToString(DayOfMonth(DayOf(d)))
  ELSE WeekdayShort[WeekdayOf(d)] \o " " \o ToString(DayOfMonth(DayOf(d))) \o " "
         \o MonthShort[MonthOf(DayOf(d))]

\* the today / tomorrow / date part of the summary
DatetimePart(datetime, n, loc) ==
  IF SameDay(datetime, n) THEN "today at " \o toLocaleTimeString(datetime, loc)
  ELSE IF SameDay(datetime, addDays(n, 1))
  THEN "tomorrow at " \o toLocaleTimeString(datetime, loc)
  ELSE toLocaleDateString(datetime, loc) \o " at " \o toLocaleTimeString(datetime, loc)

unitMap(type) ==
  CASE type = "daily" -> "days"
    [] type = "weekly" -> "weeks"
    [] type = "monthly" -> "months"
    [] type = "yearly" -> "years"
    [] type = "hourly" -> "hours"
    [] OTHER -> type

\* the recurrence part with "every" in front of a type
RecurrencePart_EveryAlways(recurrence) ==
  IF recurrence = Undefined THEN <<>>
  ELSE <<"repeating every " \o ToString(recurrence.interval) \o " "
           \o unitMap(recurrence.type)>>

\* the recurrence part of the summary, if any
RecurrencePart(recurrence) ==
  IF recurrence = Undefined THEN <<>>
  ELSE IF recurrence.interval = 1 THEN <<"repeating " \o recurrence.type>>
  ELSE <<"repeating every " \o ToString(recurrence.interval) \o " "
           \o unitMap(recurrence.type)>>

\* the priority part of the summary, if any
PriorityPart(priority) ==
  IF priority # "medium" THEN <<"(" \o priority \o " priority)">> ELSE <<>>

\* parts.join(" · ")
RECURSIVE JoinParts(_)
JoinParts(parts) ==
  IF Len(parts) = 0 THEN ""
  ELSE IF Len(parts) = 1 THEN parts[1]
  ELSE parts[1] \o " · " \o JoinParts(Tail(parts))

formatParsedSummary(parsed, n, loc) ==
  JoinParts(<<"\"" \o parsed.title \o "\"">>
              \o <<DatetimePart(parsed.datetime, n, loc)>>
              \o RecurrencePart(parsed.recurrence)
              \o PriorityPart(parsed.priority))

\* the clock at the summary: Monday 2024-01-01 05:00, Tuesday 05:00, Sunday 23:30
Nows == {300, 1740, 10050}

InitSummary ==
  /\ input \in Scenarios
  /\ ref \in Refs
  /\ forward \in BOOLEAN
  /\ pc = "input"
  /\ result = NotCalled
  /\ locale \in Locales
  /\ NoSummary
  /\ NoSession
  /\ NoSync
  /\ NoApp

\* const text = formatParsedSummary(result)
Summarise ==
  /\ pc = "parsed"
  /\ result # null
  /\ \E n \in Nows :
       /\ now' = n
       /\ summary' = formatParsedSummary(result, n, locale)
  /\ pc' = "summarised"
  /\ UNCHANGED <<input, ref, forward, result, locale, lastIndex, history, syncVars, appVars>>

NextSummary == Parse \/ Summarise

SpecSummary == InitSummary /\ [][NextSummary]_vars

(***************************************************************************)
(* A session: several calls of parseNaturalLanguage, one after the other,  *)
(* sharing the module-level regular expressions and their lastIndex        *)
(***************************************************************************)
\* RECURRENCE_PHRASES, TIME_PHRASES and PRIORITY_PHRASES, in the order
\* extractTitle uses them
GlobalRegexes == <<RECURRENCE_PHRASES, TIME_PHRASES, PRIORITY_PHRASES>>

\* the patterns extractTitle writes as literals, made anew at every call
LiteralTitlePatterns ==
  <<DatePhrasesRe, StandaloneTimeRe, TrailingPrepositionRe, TrailingStartingRe>>

\* String.prototype.replace with a global pattern sets lastIndex to 0 first
ReplaceStartIndex(li) == 0

\* a lastIndex left at the end of the first match
ReplaceEndIndex_MatchEnd(r, ls) ==
  IF Len(ls) > 0 /\ Test(r, ls) THEN Exec(r, ls).e - 1 ELSE 0

\* the search that finds no further match leaves lastIndex at 0
ReplaceEndIndex(r, ls) == 0

\* s.replace(r, "") for a module-level pattern whose lastIndex is li
replaceGlobalLower(r, s, ls, start) ==
  SubSeq(s, 1, start) \o ReplaceAllFrom(r, "", s, ls, start + 1)

replaceGlobal(r, s, li) ==
  IF Len(s) = 0 THEN s
  ELSE replaceGlobalLower(r, s, toLowerCase(s), Min(ReplaceStartIndex(li), Len(s)))

\* the title after the first k replacements of extractTitle
RECURSIVE StripGlobals(_, _, _)
StripGlobals(k, text, li) ==
  IF k = 0 THEN text
  ELSE replaceGlobal(GlobalRegexes[k], StripGlobals(k - 1, text, li), li[k])

extractTitleSession(text, li) ==
  CleanUp(RemoveEach(LiteralTitlePatterns, 1, StripGlobals(Len(GlobalRegexes), text, li)))

\* every lastIndex after extractTitle(text)
lastIndexAfter(text, li) ==
  [k \in 1..Len(GlobalRegexes) |->
     ReplaceEndIndex(GlobalRegexes[k], toLowerCase(StripGlobals(k - 1, text, li)))]

\* parseNaturalLanguage(in, referenceDate) with the regular expressions as
\* the calls before left them
parseSession(in, referenceDate, fwd, li) ==
  IF Len(in) = 0 \/ Len(trim(in)) = 0 THEN null
  ELSE Reminder(extractTitleSession(trim(in), li),
                AnchorDatetime(chronoParse(trim(in), referenceDate, fwd), referenceDate),
                parseRecurrence(trim(in)), parsePriority(trim(in)))

lastIndexSession(in, li) ==
  IF Len(in) = 0 \/ Len(trim(in)) = 0 THEN li ELSE lastIndexAfter(trim(in), li)

\* the most calls of a session
MaxCalls == 3

SessionInputs ==
  {"Take bins out every day at 7am starting tomorrow",
   "Dentist tomorrow at 2:30pm urgent", "every day at 7am"}

SessionRefs == {300, 480}

InitSession ==
  /\ input = ""
  /\ ref = 0
  /\ forward \in BOOLEAN
  /\ pc = "session"
  /\ result = NotCalled
  /\ locale = "en-US"
  /\ NoSummary
  /\ NoSession
  /\ NoSync
  /\ NoApp

\* parseNaturalLanguage(text, r), after the earlier calls of the session
Call ==
  /\ pc = "session"
  /\ Len(history) < MaxCalls
  /\ \E text \in SessionInputs, r \in SessionRefs :
       /\ input' = text
       /\ ref' = r
       /\ result' = parseSession(text, r, forward, lastIndex)
       /\ lastIndex' = lastIndexSession(text, lastIndex)
       /\ history' = Append(history, [input |-> text, ref |-> r, result |-> result'])
  /\ UNCHANGED <<forward, pc, now, locale, summary, syncVars, appVars>>

NextSession == Call

SpecSession == InitSession /\ [][NextSession]_vars

(***************************************************************************)
(* RemindersContext: merging the reminders fetched from the cloud          *)
(***************************************************************************)
\* r.syncId || r.id; a reminder without syncId has the syncId ""
Key(r) == IF r.syncId # "" THEN r.syncId ELSE r.id

\* the place of the key in the Map, 0 for none; a Map keeps its entries in
\* the order their keys were first set
mapGet(m, key) ==
  IF \E i \in 1..Len(m) : Key(m[i]) = key
  THEN CHOOSE i \in 1..Len(m) : Key(m[i]) = key
  ELSE 0

\* mergedMap.set(r.syncId || r.id, r)
mapSet(m, r) ==
  IF mapGet(m, Key(r)) = 0 THEN Append(m, r) ELSE [m EXCEPT ![mapGet(m, Key(r))] = r]

\* new Map(prev.map((r) => [r.syncId || r.id, r]))
RECURSIVE localMap(_, _, _)
localMap(m, prev, i) ==
  IF i > Len(prev) THEN m ELSE localMap(mapSet(m, prev[i]), prev, i + 1)

\* the cloud copy replaces the local one from a tie on
cloudIsNewer_OrSame(cloudReminder, local) == cloudReminder.updatedAt >= local.updatedAt

\* new Date(cloudReminder.updatedAt) > new Date(local.updatedAt)
cloudIsNewer(cloudReminder, local) == cloudReminder.updatedAt > local.updatedAt

\* for (const cloudReminder of cloudReminders) ...
RECURSIVE mergeFrom(_, _, _)
mergeFrom(m, cloudReminders, i) ==
  IF i > Len(cloudReminders) THEN m
  ELSE IF mapGet(m, Key(cloudReminders[i])) = 0
          \/ cloudIsNewer(cloudReminders[i], m[mapGet(m, Key(cloudReminders[i]))])
  THEN mergeFrom(mapSet(m, cloudReminders[i]), cloudReminders, i + 1)
  ELSE mergeFrom(m, cloudReminders, i + 1)

\* the updater handed to setReminders, in initializeCloudSync and in
\* syncFromCloud
mergeReminders(prev, cloudReminders) ==
  IF Len(cloudReminders) > 0
  THEN mergeFrom(localMap(<<>>, prev, 1), cloudReminders, 1)
  ELSE prev

\* Crypto.randomUUID() for the reminder with this id: a syncId no other
\* reminder has
randomUUID(id) == "uuid-" \o id

\* syncRemindersToCloud: every reminder gets a syncId
withSyncIds(rs) ==
  [i \in 1..Len(rs) |->
     IF rs[i].syncId = "" THEN [rs[i] EXCEPT !.syncId = randomUUID(rs[i].id)] ELSE rs[i]]

\* supabase upsert, onConflict: "id"
RECURSIVE upsert(_, _, _)
upsert(rows, rs, i) ==
  IF i > Len(rs) THEN rows ELSE upsert(mapSet(rows, rs[i]), rs, i + 1)

\* the latest updatedAt of the reminders tried
MaxUpdatedAt == 2

Ids == {"a", "b"}

SyncIds == {"s", "t"}

LocalReminders ==
  [id : Ids, syncId : SyncIds \cup {""}, updatedAt : 1..MaxUpdatedAt, title : {"local"}]

CloudReminders ==
  [id : Ids, syncId : SyncIds, updatedAt : 1..MaxUpdatedAt, title : {"cloud"}]

\* the lists of at most two reminders of R, no two with the same key or id
ListsOf(R) ==
  {<<>>} \cup {<<r>> : r \in R}
    \cup {<<p[1], p[2]>> : p \in {q \in R \X R : Key(q[1]) # Key(q[2]) /\ q[1].id # q[2].id}}

InitSync ==
  /\ input = ""
  /\ ref = 0
  /\ forward = FALSE
  /\ pc = "sync"
  /\ result = NotCalled
  /\ locale = "en-US"
  /\ NoSummary
  /\ NoSession
  /\ reminders \in ListsOf(LocalReminders)
  /\ cloud \in ListsOf(CloudReminders)
  /\ syncPc = "start"
  /\ merge = NoMerge
  /\ remote = NoEvent
  /\ NoApp

\* initializeCloudSync, up to the merge of the fetched reminders
InitializeCloudSyncMerge ==
  /\ syncPc = "start"
  /\ reminders' = mergeReminders(reminders, cloud)
  /\ merge' = [prev |-> reminders, fetched |-> cloud, merged |-> reminders']
  /\ syncPc' = "merged"
  /\ UNCHANGED <<input, ref, forward, pc, result, now, locale, summary, lastIndex,
                 history, cloud, remote, appVars>>

\* initializeCloudSync, from the push of the local reminders on
InitializeCloudSyncPush ==
  /\ syncPc = "merged"
  /\ reminders' = withSyncIds(reminders)
  /\ cloud' = upsert(cloud, reminders', 1)
  /\ syncPc' = "subscribed"
  /\ UNCHANGED <<input, ref, forward, pc, result, now, locale, summary, lastIndex,
                 history, merge, remote, appVars>>

\* syncFromCloud
SyncFromCloud ==
  /\ syncPc \in {"start", "subscribed"}
  /\ reminders' = mergeReminders(reminders, cloud)
  /\ merge' = [prev |-> reminders, fetched |-> cloud, merged |-> reminders']
  /\ UNCHANGED <<input, ref, forward, pc, result, now, locale, summary, lastIndex,
                 history, cloud, syncPc, remote, appVars>>

NextSync == InitializeCloudSyncMerge \/ InitializeCloudSyncPush \/ SyncFromCloud

SpecSync == InitSync /\ [][NextSync]_vars

(***************************************************************************)
(* RemindersContext: local edits and real-time update events               *)
(***************************************************************************)
\* the variables of the parser, the summary and the session
textVars == <<input, ref, forward, pc, result, now, locale, summary, lastIndex, history>>

\* no text is being parsed
NoText ==
  /\ input = "" /\ ref = 0 /\ forward = FALSE /\ result = NotCalled
  /\ locale = "en-US" /\ NoSummary /\ NoSession

\* { ...r, ...reminder } unless the local copy is the later one
handleRemoteUpdate_LastWriteWins(prev, reminder) ==
  [i \in 1..Len(prev) |->
     IF (prev[i].syncId = reminder.syncId \/ prev[i].id = reminder.id)
        /\ reminder.updatedAt >= prev[i].updatedAt
     THEN reminder ELSE prev[i]]

\* prev.map((r) => r.syncId === reminder.syncId || r.id === reminder.id
\*                   ? { ...r, ...reminder } : r)
handleRemoteUpdate(prev, reminder) ==
  [i \in 1..Len(prev) |->
     IF prev[i].syncId = reminder.syncId \/ prev[i].id = reminder.id
     THEN reminder ELSE prev[i]]

\* Storage.updateReminder: { ...reminders[index], ...updates, updatedAt: now }
updateReminder(r, title) == [r EXCEPT !.title = title, !.updatedAt = r.updatedAt + 1]

\* the reminders a device holds once they have been pushed
SyncedReminders ==
  [id : Ids, syncId : SyncIds, updatedAt : 1..MaxUpdatedAt, title : {"local"}]

InitRealtime ==
  /\ pc = "sync"
  /\ NoText
  /\ reminders \in ListsOf(SyncedReminders)
  /\ cloud = <<>>
  /\ syncPc = "subscribed"
  /\ merge = NoMerge
  /\ remote = NoEvent
  /\ NoApp

\* updateReminderHandler(id, updates)
UpdateReminder ==
  /\ syncPc = "subscribed"
  /\ \E i \in 1..Len(reminders) :
       /\ reminders[i].updatedAt < MaxUpdatedAt
       /\ reminders' =
            [j \in 1..Len(reminders) |->
               IF reminders[j].id = reminders[i].id
               THEN updateReminder(reminders[i], "edited") ELSE reminders[j]]
  /\ UNCHANGED <<textVars, cloud, syncPc, merge, remote, appVars>>

\* onUpdate(fromSupabaseReminder(payload.new))
HandleRemoteUpdate ==
  /\ syncPc = "subscribed"
  /\ \E reminder \in CloudReminders :
       /\ reminders' = handleRemoteUpdate(reminders, reminder)
       /\ remote' = [reminder |-> reminder, prev |-> reminders, updated |-> reminders']
  /\ UNCHANGED <<textVars, cloud, syncPc, merge, appVars>>

NextRealtime == UpdateReminder \/ HandleRemoteUpdate

SpecRealtime == InitRealtime /\ [][NextRealtime]_vars

(***************************************************************************)
(* The custom-snooze input of a notification (services/notifee and the     *)
(* expo notification service)                                              *)
(***************************************************************************)
\* a number of the runtime: not-a-number, or an integer
NaN == [isNaN |-> TRUE]

Number(n) == [isNaN |-> FALSE, value |-> n]

isNaN(x) == x.isNaN

\* the run of digits a text starts with
DigitPrefix(s) ==
  SubSeq(s, 1, Len(s) - Cardinality({i \in 1..Len(s) :
                                      \E j \in 1..i : At(s, j) \notin DigitSet}))

\* parseInt(s, 10) of any text: white space, a sign, then the digits up to
\* the first character that is none
parseIntText(s) ==
  LET t == trim(s)
      signed == Len(t) > 0 /\ At(t, 1) \in {"+", "-"}
      digits == DigitPrefix(IF signed THEN SubSeq(t, 2, Len(t)) ELSE t)
  IN  IF Len(digits) = 0 THEN NaN
      ELSE IF signed /\ At(t, 1) = "-" THEN Number(0 - parseInt(digits))
      ELSE Number(parseInt(digits))

DEFAULT_SNOOZE == 15
MIN_SNOOZE == 1
MAX_SNOOZE == 1440

Max(a, b) == IF a > b THEN a ELSE b

\* clampSnoozeMinutes without its upper limit
clampSnoozeMinutes_NoCap(minutes) == Max(MIN_SNOOZE, minutes)

clampSnoozeMinutes(minutes) == Max(MIN_SNOOZE, Min(MAX_SNOOZE, minutes))

\* a response without text: the field was left out
Missing(r) == "userText" \notin DOMAIN r

\* the minutes of a text that is there
SnoozeInputMinutes(in) ==
  IF Len(in) = 0 THEN DEFAULT_SNOOZE
  ELSE IF isNaN(parseIntText(trim(in))) THEN DEFAULT_SNOOZE
  ELSE IF parseIntText(trim(in)).value <= 0 THEN DEFAULT_SNOOZE
  ELSE Max(1, Min(1440, parseIntText(trim(in)).value))

\* services/notifee: the input is undefined when the field was left out
parseCustomSnoozeInput(r) ==
  IF Missing(r) THEN DEFAULT_SNOOZE ELSE SnoozeInputMinutes(r.userText)

\* response.userText?.trim() || ""
userTextOf(r) == IF Missing(r) THEN "" ELSE trim(r.userText)

\* the expo service
parseCustomSnoozeResponse(r) ==
  IF isNaN(parseIntText(userTextOf(r))) THEN DEFAULT_SNOOZE
  ELSE IF parseIntText(userTextOf(r)).value <= 0 THEN DEFAULT_SNOOZE
  ELSE clampSnoozeMinutes(parseIntText(userTextOf(r)).value)

MaxSnoozeLen == 3

SnoozeChars == {"0", "1", "4", "9", "-", " ", "m"}

RECURSIVE TextsOf(_)
TextsOf(n) ==
  IF n = 0 THEN {""}
  ELSE LET shorter == TextsOf(n - 1)
       IN  shorter \cup {t \o c : t \in {u \in shorter : Len(u) = n - 1}, c \in SnoozeChars}

\* what can arrive: nothing, short texts over the characters above, and the
\* numbers around the upper limit
UserTexts ==
  TextsOf(MaxSnoozeLen) \cup {"1439", "1440", "1441", "2000", " 90 min", "1.5", "+30"}

Responses == {[actionId |-> "snooze_custom"]}
               \cup {[actionId |-> "snooze_custom", userText |-> t] : t \in UserTexts}

InitSnooze ==
  /\ pc = "snooze"
  /\ NoText
  /\ NoSync
  /\ response \in Responses
  /\ handler \in {"notifee", "expo"}
  /\ snoozeMinutes = 0
  /\ NoDraft
  /\ NoStore
  /\ NoNotify

\* the custom-snooze action of a notification arrives
CustomSnooze ==
  /\ snoozeMinutes = 0
  /\ snoozeMinutes' = IF handler = "notifee" THEN parseCustomSnoozeInput(response)
                       ELSE parseCustomSnoozeResponse(response)
  /\ UNCHANGED <<textVars, syncVars, response, handler, draftVars, storeVars, notifyVars>>

NextSnooze == CustomSnooze

SpecSnooze == InitSnooze /\ [][NextSnooze]_vars

(***************************************************************************)
(* The rapid-reminder screen: debounced parsing and saving                 *)
(***************************************************************************)
\* what the user can have in the input
DraftTexts ==
  {"", " ", "Call mum tomorrow", "Call dad daily", "pay rent urgent", "buy milk at 7am"}

DraftRefs == {300, 480}

InitDraft ==
  /\ pc = "draft"
  /\ input = "" /\ result = NotCalled /\ locale = "en-US"
  /\ ref \in DraftRefs
  /\ forward \in BOOLEAN
  /\ NoSummary
  /\ NoSession
  /\ NoSync
  /\ NoSnooze
  /\ draftText = ""
  /\ draftParsed = null
  /\ timeout = NoTimeout
  /\ saved = NoSave
  /\ NoStore
  /\ NoNotify

\* onChangeText={setText} and the effect on [text]: the cleanup clears the
\* pending timer; a blank text clears the preview, any other text starts a
\* timer and leaves the preview as it is
SetText ==
  /\ saved = NoSave
  /\ \E t \in DraftTexts \ {draftText} :
       /\ draftText' = t
       /\ IF Len(trim(t)) = 0
          THEN draftParsed' = null /\ timeout' = NoTimeout
          ELSE draftParsed' = draftParsed /\ timeout' = [text |-> t]
  /\ UNCHANGED <<textVars, syncVars, snoozeVars, storeVars, notifyVars, saved>>

\* the timer fires after 300 ms: setParsed(parseNaturalLanguage(text))
TimeoutFires ==
  /\ saved = NoSave
  /\ timeout # NoTimeout
  /\ draftParsed' = parseNaturalLanguage(timeout.text, ref, forward)
  /\ timeout' = NoTimeout
  /\ UNCHANGED <<textVars, syncVars, snoozeVars, storeVars, notifyVars, draftText, saved>>

\* handleSave: if (!parsed) return; addReminder of the fields of parsed
HandleSave ==
  /\ saved = NoSave
  /\ draftParsed # null
  /\ saved' = [text |-> draftText, reminder |-> draftParsed]
  /\ UNCHANGED <<textVars, syncVars, snoozeVars, storeVars, notifyVars, draftText, draftParsed, timeout>>

NextDraft == SetText \/ TimeoutFires \/ HandleSave

SpecDraft == InitDraft /\ [][NextDraft]_vars

(***************************************************************************)
(* The provider's handlers over local storage (context/RemindersContext,   *)
(* services/storage).  Every await is a point where another call can run.  *)
(* The notification service is not available here, so that                 *)
(* scheduleReminderNotification returns null.                              *)
(***************************************************************************)
FreeMaxReminders == 10

\* maxReminders: isProUser ? Infinity : 10
getFeatureAccess(isPro) ==
  [maxReminders |-> IF isPro THEN [finite |-> FALSE]
                    ELSE [finite |-> TRUE, value |-> FreeMaxReminders]]

featureAccess == getFeatureAccess(isProUser)

MaxOps == 2

OpIds == 1..MaxOps

\* the reminders the list starts with are numbered from 1
StoredReminder(i) == [id |-> i, title |-> "t"]

StartList(n) == [i \in 1..n |-> StoredReminder(i)]

StartSizes == {1, FreeMaxReminders - 1, FreeMaxReminders}

\* the reminders update and delete are called for; the second may be absent
Targets == {1, 2}

\* uuidv4() of the call k
uuidv4(k) == FreeMaxReminders + k

IdsOf(list) == {list[i].id : i \in 1..Len(list)}

\* reminders.filter((r) => r.id !== id)
WithoutId(list, id) == SelectSeq(list, LAMBDA r : r.id # id)

\* reminders[index] = {...reminders[index], ...updates}
WithUpdate(list, id, updated) ==
  [i \in 1..Len(list) |-> IF list[i].id = id THEN updated ELSE list[i]]

Idle == [pc |-> "idle"]

InitStore ==
  /\ pc = "store"
  /\ NoText
  /\ cloud = <<>> /\ syncPc = "off" /\ merge = NoMerge /\ remote = NoEvent
  /\ NoSnooze
  /\ NoDraft
  /\ NoNotify
  /\ isProUser \in BOOLEAN
  /\ \E n \in StartSizes : storage = StartList(n) /\ reminders = StartList(n)
  /\ ops = [k \in OpIds |-> Idle]

\* addReminderHandler up to its first await: the limit is tested against
\* remindersRef.current, which follows the state
CallAddReminder ==
  /\ \E k \in OpIds :
       /\ ops[k].pc = "idle"
       /\ IF /\ featureAccess.maxReminders.finite
             /\ Len(reminders) >= featureAccess.maxReminders.value
          THEN ops' = [ops EXCEPT ![k] = [pc |-> "failed", kind |-> "add",
                                           error |-> "LIMIT_REACHED"]]
          ELSE ops' = [ops EXCEPT ![k] = [pc |-> "called", kind |-> "add",
                                           id |-> uuidv4(k)]]
  /\ UNCHANGED <<textVars, syncVars, snoozeVars, draftVars, notifyVars, isProUser, storage>>

\* updateReminderHandler(id, {title}) up to its first await
CallUpdateReminder ==
  /\ \E k \in OpIds, id \in Targets :
       /\ ops[k].pc = "idle"
       /\ ops' = [ops EXCEPT ![k] = [pc |-> "called", kind |-> "update", id |-> id,
                                       title |-> "t" \o ToString(k)]]
  /\ UNCHANGED <<textVars, syncVars, snoozeVars, draftVars, notifyVars, isProUser, storage>>

\* deleteReminderHandler(id) up to its first await
CallDeleteReminder ==
  /\ \E k \in OpIds, id \in Targets :
       /\ ops[k].pc = "idle"
       /\ ops' = [ops EXCEPT ![k] = [pc |-> "called", kind |-> "delete", id |-> id]]
  /\ UNCHANGED <<textVars, syncVars, snoozeVars, draftVars, notifyVars, isProUser, storage>>

\* const reminders = await getReminders()
GetReminders ==
  /\ \E k \in OpIds :
       /\ ops[k].pc = "called"
       /\ ops' = [ops EXCEPT ![k] = [ops[k] EXCEPT !.pc = "read"] @@ [list |-> storage]]
  /\ UNCHANGED <<textVars, syncVars, snoozeVars, draftVars, notifyVars, isProUser, storage>>

\* the list a storage function writes from the list it read, or the list
\* it read when it returns without writing
ListToSave(op) ==
  IF op.kind = "add" THEN Append(op.list, [id |-> op.id, title |-> "t"])
  ELSE IF op.kind = "update"
    THEN WithUpdate(op.list, op.id, [id |-> op.id, title |-> op.title])
  ELSE WithoutId(op.list, op.id)

\* whether the storage function writes: update and delete return early
\* when the reminder is not in the list they read
Saves(op) == op.kind = "add" \/ op.id \in IdsOf(op.list)

\* await saveReminders(...), and the return of the storage function
SaveReminders ==
  /\ \E k \in OpIds :
       /\ ops[k].pc = "read"
       /\ storage' = IF Saves(ops[k]) THEN ListToSave(ops[k]) ELSE storage
       /\ ops' = [ops EXCEPT ![k] = [ops[k] EXCEPT !.pc = "stored"]
                                       @@ [found |-> Saves(ops[k])]]
  /\ UNCHANGED <<textVars, syncVars, snoozeVars, draftVars, notifyVars, isProUser>>

\* the list setReminders makes of the state
StateAfter(op, prev) ==
  IF op.kind = "add" THEN Append(prev, [id |-> op.id, title |-> "t"])
  ELSE IF op.kind = "update"
    THEN IF op.found THEN WithUpdate(prev, op.id, [id |-> op.id, title |-> op.title])
         ELSE prev
  ELSE WithoutId(prev, op.id)

\* setReminders((prev) => ...), and the return of the handler
SetReminders ==
  /\ \E k \in OpIds :
       /\ ops[k].pc = "stored"
       /\ reminders' = StateAfter(ops[k], reminders)
       /\ ops' = [ops EXCEPT ![k] = [ops[k] EXCEPT !.pc = "done"]]
  /\ UNCHANGED <<textVars, cloud, syncPc, merge, remote, snoozeVars, draftVars,
                 notifyVars, isProUser, storage>>

NextStore ==
  \/ CallAddReminder
  \/ CallUpdateReminder
  \/ CallDeleteReminder
  \/ GetReminders
  \/ SaveReminders
  \/ SetReminders

SpecStore == InitStore /\ [][NextStore]_vars

(***************************************************************************)
(* Notifications of reminders (services/notifee and the handlers of the    *)
(* provider).  The notification service is available and every trigger     *)
(* time lies ahead; a handler runs to its end before the next starts.      *)
(***************************************************************************)
NotifyIds == {"a", "b"}

\* a reminder of the list; notificationId "" stands for none
NotifiedReminder(id, nid) == [id |-> id, isCompleted |-> FALSE, notificationId |-> nid]

\* the notification scheduleReminderNotification creates: id: reminder.id
ReminderNotification(rid) == [id |-> rid, reminderId |-> rid]

\* the notification scheduleSnoozeNotification creates: id: `${reminderId}_snooze`
scheduleSnoozeNotification(rid) == [id |-> rid \o "_snooze", reminderId |-> rid]

\* notifee.cancelNotification(id) on a set of notifications
cancelNotification(set, id) == {n \in set : n.id # id}

HasId(list, id) == \E i \in 1..Len(list) : list[i].id = id

\* reminders.find((r) => r.id === id)
Find(list, id) == list[CHOOSE i \in 1..Len(list) : list[i].id = id]

\* prev.map((r) => (r.id === id ? {...r, ...updates} : r))
MapId(list, id, updates) ==
  [i \in 1..Len(list) |-> IF list[i].id = id THEN updates @@ list[i] ELSE list[i]]

\* each reminder was added with a notification, or at a time that had passed
InitNotify ==
  /\ pc = "notify"
  /\ NoText
  /\ cloud = <<>> /\ syncPc = "off" /\ merge = NoMerge /\ remote = NoEvent
  /\ NoSnooze
  /\ NoDraft
  /\ isProUser = FALSE /\ ops = <<>>
  /\ \E na \in {"", "a"}, nb \in {"", "b"} :
       /\ reminders = <<NotifiedReminder("a", na), NotifiedReminder("b", nb)>>
       /\ scheduled = {ReminderNotification(id) : id \in {na, nb} \ {""}}
  /\ storage = reminders
  /\ displayed = {}
  /\ lastOp = [op |-> "add"]

\* the trigger time of a notification comes
Deliver ==
  /\ \E n \in scheduled :
       /\ scheduled' = scheduled \ {n}
       /\ displayed' = displayed \cup {n}
       /\ lastOp' = [op |-> "deliver", id |-> n.reminderId]
  /\ UNCHANGED <<textVars, syncVars, snoozeVars, draftVars, isProUser, storage, ops>>

\* a snooze action of a notification: the notification is cancelled, then
\* onSnooze updates the stored reminder and, when there is one, schedules
\* the snooze notification
PressSnooze ==
  /\ \E n \in displayed :
       /\ displayed' = cancelNotification(displayed, n.id)
       /\ scheduled' =
            IF HasId(storage, n.reminderId)
            THEN cancelNotification(scheduled, n.id)
                   \cup {scheduleSnoozeNotification(n.reminderId)}
            ELSE cancelNotification(scheduled, n.id)
       /\ lastOp' = [op |-> "notificationSnooze", id |-> n.reminderId]
  /\ UNCHANGED <<textVars, syncVars, snoozeVars, draftVars, isProUser, storage, ops>>

\* the done action of a notification: the notification is cancelled, then
\* onDone completes the stored reminder and the one of the list
PressDone ==
  /\ \E n \in displayed :
       /\ displayed' = cancelNotification(displayed, n.id)
       /\ scheduled' = cancelNotification(scheduled, n.id)
       /\ storage' = MapId(storage, n.reminderId, [isCompleted |-> TRUE])
       /\ reminders' = IF HasId(storage, n.reminderId)
                        THEN MapId(reminders, n.reminderId, [isCompleted |-> TRUE])
                        ELSE reminders
       /\ lastOp' = [op |-> IF HasId(storage, n.reminderId) THEN "complete"
                             ELSE "notificationDone",
                     id |-> n.reminderId]
  /\ UNCHANGED <<textVars, cloud, syncPc, merge, remote, snoozeVars, draftVars,
                 isProUser, ops>>

\* snoozeReminderHandler: scheduleReminderNotification cancels the
\* reminder's notification and creates one under the reminder's id
SnoozeReminder ==
  /\ \E id \in NotifyIds :
       /\ HasId(reminders, id)
       /\ ~Find(reminders, id).isCompleted
       /\ scheduled' = cancelNotification(scheduled, Find(storage, id).notificationId)
                          \cup {ReminderNotification(id)}
       /\ displayed' = cancelNotification(cancelNotification(displayed,
                                             Find(storage, id).notificationId), id)
       /\ storage' = MapId(storage, id, [notificationId |-> id])
       /\ reminders' = MapId(reminders, id, [notificationId |-> id])
       /\ lastOp' = [op |-> "snooze", id |-> id]
  /\ UNCHANGED <<textVars, cloud, syncPc, merge, remote, snoozeVars, draftVars,
                 isProUser, ops>>

\* the notifications left when a handler has cancelled reminder.notificationId
AfterCancelOf(set, reminder) ==
  IF reminder.notificationId # "" THEN cancelNotification(set, reminder.notificationId)
  ELSE set

\* completeReminderHandler
CompleteReminder ==
  /\ \E id \in NotifyIds :
       /\ HasId(reminders, id)
       /\ ~Find(reminders, id).isCompleted
       /\ scheduled' = AfterCancelOf(scheduled, Find(reminders, id))
       /\ displayed' = AfterCancelOf(displayed, Find(reminders, id))
       /\ storage' = MapId(storage, id, [isCompleted |-> TRUE])
       /\ reminders' = MapId(reminders, id, [isCompleted |-> TRUE])
       /\ lastOp' = [op |-> "complete", id |-> id]
  /\ UNCHANGED <<textVars, cloud, syncPc, merge, remote, snoozeVars, draftVars,
                 isProUser, ops>>

\* deleteReminderHandler
DeleteReminder ==
  /\ \E id \in NotifyIds :
       /\ HasId(reminders, id)
       /\ scheduled' = AfterCancelOf(scheduled, Find(reminders, id))
       /\ displayed' = AfterCancelOf(displayed, Find(reminders, id))
       /\ storage' = WithoutId(storage, id)
       /\ reminders' = WithoutId(reminders, id)
       /\ lastOp' = [op |-> "delete", id |-> id]
  /\ UNCHANGED <<textVars, cloud, syncPc, merge, remote, snoozeVars, draftVars,
                 isProUser, ops>>

NextNotify ==
  \/ Deliver
  \/ PressSnooze
  \/ PressDone
  \/ SnoozeReminder
  \/ CompleteReminder
  \/ DeleteReminder

SpecNotify == InitNotify /\ [][NextNotify]_vars

(***************************************************************************)
(* Properties                                                              *)
(***************************************************************************)
\* the trimmed text the parser works on
Text == trim(input)

\* the call has returned a reminder
Returned == pc = "parsed" /\ result # null

ReminderFields == {"title", "datetime", "recurrence", "priority", "confidence"}

\* C1: parseNaturalLanguage returns null exactly when the input is empty or
\* blank or the title extracted from the trimmed input is empty; every other
\* input gets a reminder carrying that title.
C1_NullExactlyOnBlankOrEmptyTitle ==
  pc = "parsed" =>
    /\ (result = null) <=> (Len(Text) = 0 \/ Len(extractTitle(Text)) = 0)
    /\ result # null =>
         DOMAIN result = ReminderFields /\ result.title = extractTitle(Text)

C1_Witness == pc = "parsed" /\ Len(Text) > 0 /\ result = null

\* C2: "Take bins out every day at 7am starting tomorrow" at 2024-01-01T08:00
\* gives the title "Take bins out", the recurrence daily/1, a confidence of at
\* least 0.9 and the time of day 07:00.
C2_TakeBinsOut ==
  (pc = "parsed" /\ input = "Take bins out every day at 7am starting tomorrow"
     /\ ref = 480)
  => /\ result # null
     /\ result.title = "Take bins out"
     /\ result.recurrence = Recurrence("daily", 1)
     /\ result.confidence >= ConfidenceTime
     /\ TimeOfDay(result.datetime) = 7 * MinutesPerHour

C2_Witness ==
  /\ pc = "parsed"
  /\ input = "Take bins out every day at 7am starting tomorrow"
  /\ ref = 480
  /\ result # null
  /\ result.datetime = addDays(ref - TimeOfDay(ref), 1) + 7 * MinutesPerHour

\* C3 as stated: with no date/time expression found, the datetime is the
\* reference instant plus one hour and the confidence is 0.3.
C3_DefaultConfidenceAlwaysLow ==
  (Returned /\ ~ChronoComponents(Text).found)
  => result.datetime = ref + MinutesPerHour /\ result.confidence = ConfidenceNone

\* C3 amended: with no date/time expression found, the datetime is the
\* reference instant plus one hour, and the confidence is 0.3 when no
\* recurrence was matched and 0.4 when one was.
C3_DefaultTimeFallback ==
  (Returned /\ ~ChronoComponents(Text).found)
  => /\ result.datetime = ref + MinutesPerHour
     /\ result.confidence = IF result.recurrence = Undefined
                             THEN ConfidenceNone ELSE ConfidenceNone + ConfidenceStep

C3_Witness ==
  /\ Returned
  /\ ~ChronoComponents(Text).found
  /\ result.recurrence # Undefined
  /\ result.datetime = ref + MinutesPerHour
  /\ result.confidence = ConfidenceNone + ConfidenceStep

\* C4: the confidence is 0.9 with a stated clock time, 0.8 with a date only,
\* 0.3 with neither, plus 0.1 when a recurrence was matched, at most 1; so it
\* is one of 0.3, 0.4, 0.8, 0.9, 1.0.
C4_ConfidenceByExtractors ==
  Returned =>
    LET k == ChronoComponents(Text)
        base == IF ~k.found THEN ConfidenceNone
                ELSE IF k.hasTime THEN ConfidenceTime ELSE ConfidenceDate
        bonus == IF result.recurrence # Undefined THEN ConfidenceStep ELSE 0
    IN  /\ result.confidence = Min(base + bonus, ConfidenceCap)
        /\ result.confidence \in {3, 4, 8, 9, 10}
        /\ result.confidence \in 0..ConfidenceCap

C4_Witness ==
  /\ Returned
  /\ ChronoComponents(Text).found
  /\ ~ChronoComponents(Text).hasTime
  /\ result.recurrence # Undefined
  /\ result.confidence = ConfidenceDate + ConfidenceStep

\* the text's date/time expression is a clock time with no day, earlier in
\* the day than the reference instant
PastBareClock ==
  LET k == ChronoComponents(Text)
  IN  k.found /\ k.hasTime /\ k.day = "" /\ k.clock < TimeOfDay(ref)

\* C5: a bare clock time that points before the reference instant on the
\* same day resolves to an instant at or after the reference instant.
C5_ForwardOnly == (Returned /\ PastBareClock) => result.datetime >= ref

C5_Witness ==
  /\ Returned
  /\ PastBareClock
  /\ ~forward
  /\ result.datetime = addDays(ref - TimeOfDay(ref), 1) + ChronoComponents(Text).clock

\* C6: any recurrence the parser returns has an interval of at least 1.
C6_IntervalAtLeastOne ==
  (Returned /\ result.recurrence # Undefined) => result.recurrence.interval >= 1

RecurrenceKeywords == {"daily", "weekly", "monthly", "yearly", "hourly"}

\* the first of the five rules that matches the lower-cased text, 0 for none
FirstRule(lower) ==
  IF Test(EveryOtherRe, lower) THEN 1
  ELSE IF Test(EveryNRe, lower) THEN 2
  ELSE IF Test(EveryUnitRe, lower) THEN 3
  ELSE IF \E w \in RecurrenceKeywords : Test(KeywordRe(w), lower) THEN 4
  ELSE IF Test(EveryWeekdayRe, lower) THEN 5
  ELSE 0

\* C7: the recurrence is that of the first rule, in the order every other /
\* every N / every unit / keyword / every weekday-name, that matches anywhere
\* in the text, whatever the case of the letters; there is none only when no
\* rule matches.
C7_FirstRuleWins ==
  Returned =>
    LET lower == toLowerCase(Text)
        k == FirstRule(lower)
        rec == result.recurrence
    IN  /\ (k = 0) <=> (rec = Undefined)
        /\ k = 1 => rec.interval = 2
                    /\ rec.type = typeMap(Group(lower, Exec(EveryOtherRe, lower), 1))
        /\ k = 2 => rec.interval = parseInt(Group(lower, Exec(EveryNRe, lower), 1))
        /\ k = 3 => rec.interval = 1
                    /\ rec.type = typeMapUnit(Group(lower, Exec(EveryUnitRe, lower), 1))
        /\ k = 4 => rec.interval = 1
                    /\ rec.type \in RecurrenceKeywords
                    /\ Test(KeywordRe(rec.type), lower)
        /\ k = 5 => rec = Recurrence("weekly", 1)

\* a keyword stands in the text before an "every other" phrase, and the
\* phrase decides
C7_Witness ==
  /\ Returned
  /\ Test(EveryOtherRe, Text)
  /\ \E w \in RecurrenceKeywords :
       /\ Test(KeywordRe(w), Text)
       /\ Exec(KeywordRe(w), Text).b < Exec(EveryOtherRe, Text).b
  /\ result.recurrence = Recurrence("yearly", 2)

\* day -> daily, week -> weekly, month -> monthly, year -> yearly, hour ->
\* hourly; morning, evening, night and weekday -> daily
unitToType(unit) ==
  CASE unit = "week" -> "weekly"
    [] unit = "month" -> "monthly"
    [] unit = "year" -> "yearly"
    [] unit = "hour" -> "hourly"
    [] OTHER -> "daily"

\* every [single] <unit>, the unit a whole word
EveryUnitWordRe ==
  Cat(<<Lit("every"), Sp1, Opt(Cat(<<Lit("single"), Sp1>>)),
        Grp(1, Words(<<"weekday", "day", "week", "month", "year", "hour", "morning",
                       "evening", "night">>)),
        WB>>)

\* C8: a text the rule every [single] <unit> decides gets the interval 1 and
\* the type of its unit; "every weekday" gets daily/1.
C8_EveryUnitType ==
  Returned =>
    LET lower == toLowerCase(Text)
        m == Exec(EveryUnitWordRe, lower)
    IN  (m.found /\ ~Test(EveryOtherRe, lower) /\ ~Test(EveryNRe, lower))
        => result.recurrence = Recurrence(unitToType(Group(lower, m, 1)), 1)

\* the largest count tried in "every <N> <unit>s"
MaxInterval == 12

RecurrenceUnits == {"day", "week", "month", "year", "hour"}

\* the text s has the word w at position i
StartsWith(s, i, w) == i + Len(w) - 1 <= Len(s) /\ SubSeq(s, i, i + Len(w) - 1) = w

\* the phrases "every <N> <unit>" and "every <N><unit>" of the lower-cased
\* text, each as <<position, N, unit>>
EveryNPhrases(lower) ==
  {o \in {i \in 1..Len(lower) : StartsWith(lower, i, "every ")}
           \X (0..MaxInterval) \X RecurrenceUnits :
     \E sep \in {"", " "} :
       StartsWith(lower, o[1], "every " \o ToString(o[2]) \o sep \o o[3])}

\* C9: a text holding "every <N> <unit>s", N positive, and no "every other
\* <unit>" gets the interval N and the type of the unit; of several such
\* phrases the first counts.
C9_EveryNInterval ==
  Returned =>
    LET lower == toLowerCase(Text)
        ps == EveryNPhrases(lower)
        first == CHOOSE o \in ps : \A o2 \in ps : o[1] <= o2[1]
    IN  (ps # {} /\ ~Test(EveryOtherRe, lower) /\ first[2] >= 1)
        => result.recurrence = Recurrence(unitToType(first[3]), first[2])

C9_Witness ==
  /\ Returned
  /\ \E i \in 1..Len(Text) : <<i, 12, "month">> \in EveryNPhrases(toLowerCase(Text))
  /\ result.recurrence = Recurrence("monthly", 12)

\* C10: "Call mum every Sunday at 3pm" gets the recurrence weekly/1 and the
\* title "Call mum".
C10_CallMum ==
  (pc = "parsed" /\ input = "Call mum every Sunday at 3pm")
  => /\ result # null
     /\ result.recurrence = Recurrence("weekly", 1)
     /\ result.title = "Call mum"

\* position i of s starts or ends a word
AtWordBoundary(s, i) ==
  (i - 1 \in 1..Len(s) /\ At(s, i - 1) \in WordSet)
    # (i \in 1..Len(s) /\ At(s, i) \in WordSet)

\* the text s holds the word a, or the words a and b with nothing but blanks
\* between them, as whole words
HoldsWords(s, a, b) ==
  \E i \in 1..Len(s) : \E j \in (i + Len(a))..(Len(s) + 1) :
    /\ StartsWith(s, i, a)
    /\ \A k \in (i + Len(a))..(j - 1) : At(s, k) \in SpaceSet
    /\ b = "" => j = i + Len(a)
    /\ b # "" => StartsWith(s, j, b)
    /\ AtWordBoundary(s, i)
    /\ AtWordBoundary(s, j + Len(b))

HighPriorityWords ==
  {<<"urgent", "">>, <<"high", "priority">>, <<"important", "">>, <<"asap", "">>,
   <<"critical", "">>}

LowPriorityWords ==
  {<<"low", "priority">>, <<"not", "urgent">>, <<"whenever", "">>, <<"no", "rush">>}

HoldsAny(s, ws) == \E w \in ws : HoldsWords(s, w[1], w[2])

\* C11: parsePriority gives high when the text holds, in any case and as
\* whole words, one of urgent / high priority / important / asap / critical,
\* otherwise low when it holds one of low priority / not urgent / whenever /
\* no rush, otherwise medium; with words of both sets it gives high; the
\* reminder carries that priority.
C11_PriorityByKeywords ==
  pc = "parsed" =>
    LET lower == toLowerCase(Text)
        high == HoldsAny(lower, HighPriorityWords)
        low == HoldsAny(lower, LowPriorityWords)
    IN  /\ parsePriority(Text) \in {"high", "low", "medium"}
        /\ parsePriority(Text) = "high" <=> high
        /\ parsePriority(Text) = "low" <=> (low /\ ~high)
        /\ (high /\ low) => parsePriority(Text) = "high"
        /\ result # null => result.priority = parsePriority(Text)

\* a text with words of both sets, apart from each other
C11_Witness ==
  /\ Returned
  /\ HoldsWords(toLowerCase(Text), "whenever", "")
  /\ HoldsWords(toLowerCase(Text), "asap", "")
  /\ result.priority = "high"

\* C12: a text whose only priority wording is one of low priority / not
\* urgent / whenever / no rush gets the priority low.
C12_LowPhrasesEffective ==
  Returned =>
    LET lower == toLowerCase(Text)
    IN  (/\ HoldsAny(lower, LowPriorityWords)
         /\ ~HoldsAny(ReplaceAll(LowPriorityRe, " ", lower), HighPriorityWords))
        => result.priority = "low"

\* C13: extracting the title of an extracted title changes nothing.
C13_ExtractTitleIdempotent ==
  pc = "parsed" => extractTitle(extractTitle(Text)) = extractTitle(Text)

\* C14: the recurrence matcher finds nothing in the title of a reminder.
C14_NoRecurrenceInTitle == Returned => parseRecurrence(result.title) = Undefined

\* C15: the priority matcher finds nothing in the title of a reminder.
C15_NoPriorityInTitle == Returned => parsePriority(result.title) = "medium"

\* texts made of nothing but recurrence, date/time and priority phrases
NoisePhrases == Phrases \ {"Call mum"}

NoiseTexts ==
  {"every day at 7am"}
    \cup {Join(ps) : ps \in UNION {[1..n -> NoisePhrases] : n \in 1..MaxPhrases}}

\* C16: a text made of nothing but recurrence, date/time and priority
\* phrases, such as "every day at 7am", is answered with null.
C16_NoiseRejected == (pc = "parsed" /\ input \in NoiseTexts) => result = null

\* C17: "Dentist tomorrow at 2:30pm urgent" gets the priority high and the
\* title "Dentist".
C17_DentistUrgent ==
  (pc = "parsed" /\ input = "Dentist tomorrow at 2:30pm urgent")
  => /\ result # null
     /\ result.priority = "high"
     /\ result.title = "Dentist"

C17_Witness ==
  /\ Returned
  /\ input = "Dentist tomorrow at 2:30pm urgent"
  /\ Test(DatePhrasesRe, Text) /\ Test(TIME_PHRASES, Text) /\ Test(PRIORITY_PHRASES, Text)
  /\ result.title = "Dentist"
  /\ result.confidence = ConfidenceTime

\* C18: the summary of a reminder is, joined by " · ": the title in double
\* quotes; the datetime phrase; "repeating <type>" for a recurrence of
\* interval 1 and "repeating every <N> <units>" for any other; and
\* "(<priority> priority)" unless the priority is medium.
C18_SummaryParts ==
  pc = "summarised" =>
    LET time == toLocaleTimeString(result.datetime, locale)
        when == IF DayOf(result.datetime) = DayOf(now) THEN "today at " \o time
                ELSE IF DayOf(result.datetime) = DayOf(now) + 1
                THEN "tomorrow at " \o time
                ELSE toLocaleDateString(result.datetime, locale) \o " at " \o time
        rec == result.recurrence
        units == [daily |-> "days", weekly |-> "weeks", monthly |-> "months",
                  yearly |-> "years", hourly |-> "hours"]
        repeating == IF rec = Undefined THEN ""
                     ELSE IF rec.interval = 1 THEN " · repeating " \o rec.type
                     ELSE " · repeating every " \o ToString(rec.interval) \o " "
                            \o units[rec.type]
        priority == IF result.priority = "medium" THEN ""
                    ELSE " · (" \o result.priority \o " priority)"
    IN  summary = "\"" \o result.title \o "\" · " \o when \o repeating \o priority

\* a summary with all four parts, the recurrence of interval 1
C18_Witness ==
  /\ pc = "summarised"
  /\ result.recurrence # Undefined /\ result.recurrence.interval = 1
  /\ result.priority = "high"
  /\ DayOf(result.datetime) = DayOf(now) + 1
  /\ locale = "en-US"

KeysOf(rs) == {Key(rs[i]) : i \in 1..Len(rs)}

C21_RemoteUpdateKeepsNewer ==
  remote # NoEvent =>
    \A i \in 1..Len(remote.prev) :
      (/\ remote.prev[i].syncId = remote.reminder.syncId
       /\ remote.reminder.updatedAt < remote.prev[i].updatedAt)
      => remote.updated[i] = remote.prev[i]

\* the instant the date/time library resolved for the text
Resolved == chronoParse(Text, ref, forward)[1].date

PunctuationSet == {",", "-", ".", "!", "?", ";", ":"}

\* C23: a returned title has no two blanks in a row, neither begins nor ends
\* with a blank, a punctuation mark or a dash, and begins with an upper-case
\* character where its first character has one.
C23_TitleNormalForm ==
  Returned =>
    LET title == result.title
    IN  /\ \A i \in 1..(Len(title) - 1) :
             ~(At(title, i) \in SpaceSet /\ At(title, i + 1) \in SpaceSet)
        /\ At(title, 1) \notin SpaceSet \cup PunctuationSet
        /\ At(title, Len(title)) \notin SpaceSet \cup PunctuationSet
        /\ At(title, 1) \notin LowerSet

\* C26: a text from which extractTitle removes a recurrence phrase gets a
\* recurrence.
C26_StrippedRecurrenceIsReported ==
  (Returned /\ Test(RECURRENCE_PHRASES, Text)) => result.recurrence # Undefined

\* a text that is a number and nothing else
IsNumber(t) == Len(t) > 0 /\ \A i \in 1..Len(t) : At(t, i) \in DigitSet

\* a text that holds no digit at all
NoDigit(t) == \A i \in 1..Len(t) : At(t, i) \notin DigitSet

\* C24: the minutes of a custom snooze are in 1..1440; nothing, a text
\* without a number, zero and a negative number give 15, and a positive
\* number gives itself, or 1440 when it is greater.
C24_CustomSnoozeMinutes ==
  snoozeMinutes # 0 =>
    /\ snoozeMinutes \in 1..1440
    /\ Missing(response) => snoozeMinutes = 15
    /\ ~Missing(response) =>
         LET t == trim(response.userText)
         IN  /\ NoDigit(t) => snoozeMinutes = 15
             /\ (IsNumber(t) /\ parseInt(t) = 0) => snoozeMinutes = 15
             /\ (Len(t) > 1 /\ At(t, 1) = "-" /\ IsNumber(SubSeq(t, 2, Len(t))))
                  => snoozeMinutes = 15
             /\ (IsNumber(t) /\ parseInt(t) > 0) => snoozeMinutes = Min(parseInt(t), 1440)

C24_Witness ==
  /\ snoozeMinutes = 1440
  /\ ~Missing(response)
  /\ IsNumber(trim(response.userText))
  /\ parseInt(trim(response.userText)) > 1440
  /\ handler = "expo"

\* C25: what is saved on confirmation is the parse of the text that is in
\* the input at that moment.
C25_SavedIsParseOfText ==
  saved # NoSave => saved.reminder = parseNaturalLanguage(saved.text, ref, forward)

\* C27: the list of a free user never holds more than 10 reminders.
C27_FreeLimitHolds ==
  ~isProUser => Len(reminders) <= 10

\* every call has returned or was never made
Quiet == \A k \in DOMAIN ops : ops[k].pc \in {"idle", "done", "failed"}

\* C28: once the overlapping calls have returned, every reminder that
\* addReminder returned is in the persisted list.
C28_AddedIsPersisted ==
  Quiet =>
    \A k \in DOMAIN ops :
      (ops[k].pc = "done" /\ ops[k].kind = "add") => ops[k].id \in IdsOf(storage)

\* C30: after a merge of the cloud reminders into the list, no two
\* reminders of the list have the same id or the same syncId.
C30_MergedKeysDistinct ==
  merge # NoMerge =>
    \A i, j \in 1..Len(merge.merged) :
      i # j =>
        /\ merge.merged[i].id # merge.merged[j].id
        /\ (merge.merged[i].syncId = "" \/ merge.merged[i].syncId # merge.merged[j].syncId)

\* C29: when a reminder has just been completed or deleted, no
\* notification for it is scheduled.
C29_NoNotificationLeft ==
  lastOp.op \in {"complete", "delete"} =>
    \A n \in scheduled : n.reminderId # lastOp.id

====
